---- MODULE Spec2Model ----
(***************************************************************************)
(* Model of ultimatepython/classes/iterator_class.py: a depth-first walk   *)
(* over a graph of Employee objects, written twice, as the iterator class  *)
(* EmployeeIterator and as the generator function employee_generator.      *)
(*                                                                         *)
(* An Employee object is a number; its attributes are the functions name   *)
(* and direct_reports.  Two EmployeeIterator objects and one generator     *)
(* object are created on the same employee.  Spec advances one iterator    *)
(* and the generator in any order, TwoSpec the two iterators.              *)
(***************************************************************************)
EXTENDS Integers, Sequences, FiniteSets, TLC

\* ------------------------------------------------------------------ bounds
\* number of Employee objects in the graph
MaxEmployees == 3
\* total number of entries in all direct_reports lists
MaxReports == 3

Employee == 1..MaxEmployees
\* the two EmployeeIterator objects
Iterators == {1, 2}

\* --------------------------------------------------------------- constants
\* the message of IterationError
CyclicMsg == "Cyclic loop detected"

VARIABLES
    name,             \* Employee.name: employee -> name
    direct_reports,   \* Employee.direct_reports: employee -> list of employees
    top,              \* the employee every traversal is created on
    it,               \* iterator -> [employees_to_visit, employees_visited]
    it_log,           \* iterator -> what its __next__ calls returned and raised
    it_res,           \* iterator -> outcome of its latest __next__ call
    gen,              \* frame of the generator: [pc, to_visit, visited]
    gen_log,          \* what the pulls of the generator yielded and raised
    gen_res,          \* outcome of the latest pull of the generator
    reports0,         \* direct_reports as they were when the traversals were created
    it_view,          \* iterator -> the lists as the iterator has read or will read them
    gen_view          \* the lists as the generator has read or will read them

vars == <<name, direct_reports, top, it, it_log, it_res, gen, gen_log, gen_res,
          reports0, it_view, gen_view>>

\* ------------------------------------------------------------ input graphs
\* lists of (manager, report) pairs, in the order the reports are appended
ReportLists == UNION {[1..k -> Employee \X Employee] : k \in 0..MaxReports}

\* the direct_reports list of m that a list of pairs builds
ReportsOf(pairs, m) ==
    LET mine == SelectSeq(pairs, LAMBDA p : p[1] = m)
    IN  [i \in 1..Len(mine) |-> mine[i][2]]

Graphs == {[m \in Employee |-> ReportsOf(pairs, m)] : pairs \in ReportLists}

\* every employee has its own name, or two employees share a name: the
\* top and another one, or two others (Graphs holds every renaming of the
\* employees other than the top, so one pair of each kind stands for all)
NameMaps ==
    {[m \in Employee |-> IF m = p[2] THEN p[1] ELSE m] :
        p \in {<<1, 1>>, <<1, 2>>, <<2, 3>>}}

\* the employee the traversals start on; Graphs is closed under renaming the
\* employees, so one choice stands for all
Tops == {1}

\* ----------------------------------------------------------------- events
Emitted(e)  == [kind |-> "employee", employee |-> e, msg |-> ""]
Raised(e)   == [kind |-> "IterationError", employee |-> e, msg |-> CyclicMsg]

\* ------------------------------------------------------- EmployeeIterator
\* mutation: the constructor marks its employee as visited
EmployeeIterator_marked(employee) ==
    [employees_to_visit |-> <<employee>>, employees_visited |-> {name[employee]}]

\* __init__
EmployeeIterator(employee) ==
    [employees_to_visit |-> <<employee>>, employees_visited |-> {}]

\* mutation: self.employees_to_visit.pop(0)
it_pop_front(to_visit) ==
    [employee |-> to_visit[1],
     rest     |-> SubSeq(to_visit, 2, Len(to_visit))]

\* self.employees_to_visit.pop()
it_pop(to_visit) ==
    [employee |-> to_visit[Len(to_visit)],
     rest     |-> SubSeq(to_visit, 1, Len(to_visit) - 1)]

\* mutation: employee in self.employees_visited, an Employee object looked
\* up in a set of names
it_seen_never(employee, visited) == FALSE

\* employee.name in self.employees_visited
it_seen(employee, visited) == name[employee] \in visited

\* mutation: the reports are those of the time the iterator was created
it_push_cached(to_visit, employee) == to_visit \o reports0[employee]

\* for report in employee.direct_reports: self.employees_to_visit.append(report)
it_push(to_visit, employee) == to_visit \o direct_reports[employee]

\* mutation: the loop takes the reports out of the list,
\* while employee.direct_reports: ...append(employee.direct_reports.pop(0))
it_drain_reports(employee) == [direct_reports EXCEPT ![employee] = <<>>]

\* the direct_reports lists after the loop over the reports of employee:
\* the loop reads the list
it_read_reports(employee) == direct_reports

\* mutation: the check is made on the reports as they are pushed
it_next_push_check(self) ==
    IF self.employees_to_visit = <<>>
    THEN [self |-> self, res |-> "StopIteration", employee |-> 0]
    ELSE LET p == it_pop(self.employees_to_visit)
             seen == self.employees_visited \cup {name[p.employee]}
         IN  IF \E k \in DOMAIN direct_reports[p.employee] :
                    name[direct_reports[p.employee][k]] \in seen
             THEN [self |-> [self EXCEPT !.employees_to_visit = p.rest],
                   res |-> "IterationError", employee |-> p.employee]
             ELSE [self |-> [employees_to_visit |-> it_push(p.rest, p.employee),
                             employees_visited  |-> seen],
                   res |-> "employee", employee |-> p.employee]

\* mutation: self.employees_visited.add(employee)
it_next_adds_object(self) ==
    IF self.employees_to_visit = <<>>
    THEN [self |-> self, res |-> "StopIteration", employee |-> 0]
    ELSE LET p == it_pop(self.employees_to_visit)
         IN  IF it_seen(p.employee, self.employees_visited)
             THEN [self |-> [self EXCEPT !.employees_to_visit = p.rest],
                   res |-> "IterationError", employee |-> p.employee]
             ELSE [self |-> [employees_to_visit |-> it_push(p.rest, p.employee),
                             employees_visited  |->
                                 self.employees_visited \cup {p.employee}],
                   res |-> "employee", employee |-> p.employee]

\* mutation: an exhausted iterator clears employees_visited
it_next_clears(self) ==
    IF self.employees_to_visit = <<>>
    THEN [self |-> [self EXCEPT !.employees_visited = {}],
          res |-> "StopIteration", employee |-> 0]
    ELSE LET p == it_pop(self.employees_to_visit)
         IN  IF it_seen(p.employee, self.employees_visited)
             THEN [self |-> [self EXCEPT !.employees_to_visit = p.rest],
                   res |-> "IterationError", employee |-> p.employee]
             ELSE [self |-> [employees_to_visit |-> it_push(p.rest, p.employee),
                             employees_visited  |->
                                 self.employees_visited \cup {name[p.employee]}],
                   res |-> "employee", employee |-> p.employee]

\* mutation: the reports are pushed before the check
it_next_pushes_first(self) ==
    IF self.employees_to_visit = <<>>
    THEN [self |-> self, res |-> "StopIteration", employee |-> 0]
    ELSE LET p == it_pop(self.employees_to_visit)
         IN  IF it_seen(p.employee, self.employees_visited)
             THEN [self |-> [self EXCEPT !.employees_to_visit =
                                             it_push(p.rest, p.employee)],
                   res |-> "IterationError", employee |-> p.employee]
             ELSE [self |-> [employees_to_visit |-> it_push(p.rest, p.employee),
                             employees_visited  |->
                                 self.employees_visited \cup {name[p.employee]}],
                   res |-> "employee", employee |-> p.employee]

\* mutation: a visited employee ends the iteration instead of raising
it_next_stops(self) ==
    IF self.employees_to_visit = <<>>
    THEN [self |-> self, res |-> "StopIteration", employee |-> 0]
    ELSE LET p == it_pop(self.employees_to_visit)
         IN  IF it_seen(p.employee, self.employees_visited)
             THEN [self |-> [self EXCEPT !.employees_to_visit = p.rest],
                   res |-> "StopIteration", employee |-> 0]
             ELSE [self |-> [employees_to_visit |-> it_push(p.rest, p.employee),
                             employees_visited  |->
                                 self.employees_visited \cup {name[p.employee]}],
                   res |-> "employee", employee |-> p.employee]

\* __next__ on the iterator state self: the new state, the outcome and the
\* employee the call popped (0 when it popped none)
it_next(self) ==
    IF self.employees_to_visit = <<>>
    THEN [self |-> self, res |-> "StopIteration", employee |-> 0]
    ELSE LET p == it_pop(self.employees_to_visit)
         IN  IF it_seen(p.employee, self.employees_visited)
             THEN [self |-> [self EXCEPT !.employees_to_visit = p.rest],
                   res |-> "IterationError", employee |-> p.employee]
             ELSE [self |-> [employees_to_visit |-> it_push(p.rest, p.employee),
                             employees_visited  |->
                                 self.employees_visited \cup {name[p.employee]}],
                   res |-> "employee", employee |-> p.employee]

\* mutation: the two lists are class attributes, shared by all iterators
SetSelf_shared(objs, i, self) == [j \in DOMAIN objs |-> self]

\* the attributes of iterator object i are its own
SetSelf(objs, i, self) == [objs EXCEPT ![i] = self]

\* the event a call leaves in the log
Log(log, r) ==
    CASE r.res = "employee"       -> Append(log, Emitted(r.employee))
      [] r.res = "IterationError" -> Append(log, Raised(r.employee))
      [] OTHER                    -> log

\* one call of next() on iterator i
Next_it(i) ==
    LET r == it_next(it[i])
    IN  /\ it' = SetSelf(it, i, r.self)
        /\ it_log' = [it_log EXCEPT ![i] = Log(@, r)]
        /\ it_res' = [it_res EXCEPT ![i] = r.res]
        /\ direct_reports' = IF r.res = "employee"
                              THEN it_read_reports(r.employee)
                              ELSE direct_reports
        /\ UNCHANGED <<name, top, gen, gen_log, gen_res,
                       reports0, it_view, gen_view>>

\* ----------------------------------------------------- employee_generator
\* the generator object before its first pull: no line of the body has run
employee_generator(top_employee) ==
    [pc |-> "created", to_visit |-> <<>>, visited |-> {}]

\* mutation: to_visit.pop(0)
gen_pop_front(to_visit) ==
    [employee |-> to_visit[1],
     rest     |-> SubSeq(to_visit, 2, Len(to_visit))]

\* to_visit.pop()
gen_pop(to_visit) ==
    [employee |-> to_visit[Len(to_visit)],
     rest     |-> SubSeq(to_visit, 1, Len(to_visit) - 1)]

\* employee.name in visited
gen_seen(employee, visited) == name[employee] \in visited

\* mutation: for report in reversed(employee.direct_reports)
gen_push_reversed(to_visit, employee) ==
    LET r == direct_reports[employee]
    IN  to_visit \o [k \in 1..Len(r) |-> r[Len(r) + 1 - k]]

\* for report in employee.direct_reports: to_visit.append(report)
gen_push(to_visit, employee) == to_visit \o direct_reports[employee]

\* the direct_reports lists after the loop over the reports of employee:
\* the loop reads the list
gen_read_reports(employee) == direct_reports

\* mutation: to_visit = []
gen_enter_empty(g, top_employee) ==
    IF g.pc = "created"
    THEN [g EXCEPT !.to_visit = <<>>, !.visited = {}]
    ELSE g

\* the frame as the body starts (first pull) or resumes after the yield
gen_enter(g, top_employee) ==
    IF g.pc = "created"
    THEN [g EXCEPT !.to_visit = <<top_employee>>, !.visited = {}]
    ELSE g

\* mutation: a visited employee is skipped (continue) instead of raising
RECURSIVE gen_next_skips(_, _)
gen_next_skips(g, top_employee) ==
    IF g.pc = "closed"
    THEN [self |-> g, res |-> "StopIteration", employee |-> 0]
    ELSE LET f == gen_enter(g, top_employee)
         IN  IF ~(Len(f.to_visit) > 0)
             THEN [self |-> [f EXCEPT !.pc = "closed"],
                   res |-> "StopIteration", employee |-> 0]
             ELSE LET p == gen_pop(f.to_visit)
                  IN  IF gen_seen(p.employee, f.visited)
                      THEN gen_next_skips([pc |-> "yield", to_visit |-> p.rest,
                                           visited |-> f.visited], top_employee)
                      ELSE [self |-> [pc |-> "yield",
                                      to_visit |-> gen_push(p.rest, p.employee),
                                      visited |-> f.visited \cup {name[p.employee]}],
                            res |-> "employee", employee |-> p.employee]

\* mutation: a visited employee breaks out of the loop instead of raising
gen_next_breaks(g, top_employee) ==
    IF g.pc = "closed"
    THEN [self |-> g, res |-> "StopIteration", employee |-> 0]
    ELSE LET f == gen_enter(g, top_employee)
         IN  IF ~(Len(f.to_visit) > 0)
             THEN [self |-> [f EXCEPT !.pc = "closed"],
                   res |-> "StopIteration", employee |-> 0]
             ELSE LET p == gen_pop(f.to_visit)
                  IN  IF gen_seen(p.employee, f.visited)
                      THEN [self |-> [pc |-> "closed", to_visit |-> p.rest,
                                      visited |-> f.visited],
                            res |-> "StopIteration", employee |-> 0]
                      ELSE [self |-> [pc |-> "yield",
                                      to_visit |-> gen_push(p.rest, p.employee),
                                      visited |-> f.visited \cup {name[p.employee]}],
                            res |-> "employee", employee |-> p.employee]

\* one pull on the generator frame g: run the body to the next yield, to
\* the raise or to the end of the loop
gen_next(g, top_employee) ==
    IF g.pc = "closed"
    THEN [self |-> g, res |-> "StopIteration", employee |-> 0]
    ELSE LET f == gen_enter(g, top_employee)
         IN  IF ~(Len(f.to_visit) > 0)
             THEN [self |-> [f EXCEPT !.pc = "closed"],
                   res |-> "StopIteration", employee |-> 0]
             ELSE LET p == gen_pop(f.to_visit)
                  IN  IF gen_seen(p.employee, f.visited)
                      THEN [self |-> [pc |-> "closed", to_visit |-> p.rest,
                                      visited |-> f.visited],
                            res |-> "IterationError", employee |-> p.employee]
                      ELSE [self |-> [pc |-> "yield",
                                      to_visit |-> gen_push(p.rest, p.employee),
                                      visited |-> f.visited \cup {name[p.employee]}],
                            res |-> "employee", employee |-> p.employee]

\* one call of next() on the generator object
Next_gen ==
    LET r == gen_next(gen, top)
    IN  /\ gen' = r.self
        /\ gen_log' = Log(gen_log, r)
        /\ gen_res' = r.res
        /\ direct_reports' = IF r.res = "employee"
                              THEN gen_read_reports(r.employee)
                              ELSE direct_reports
        /\ UNCHANGED <<name, top, it, it_log, it_res,
                       reports0, it_view, gen_view>>

\* ---------------------------------------------------------- external code
\* the number of entries in all direct_reports lists
TotalReports(reports) ==
    Cardinality({p \in Employee \X (1..MaxReports) : p[2] \in DOMAIN reports[p[1]]})

\* the employees a log has returned
Returned(log) ==
    {log[k].employee : k \in {j \in DOMAIN log : log[j].kind = "employee"}}

\* m.direct_reports.append(r), once, between two calls of next()
Append_report(m, r) ==
    /\ direct_reports = reports0
    /\ TotalReports(direct_reports) < MaxReports
    /\ direct_reports' = [direct_reports EXCEPT ![m] = Append(@, r)]
    /\ it_view' = [i \in Iterators |->
                      IF m \in Returned(it_log[i])
                      THEN it_view[i]
                      ELSE [it_view[i] EXCEPT ![m] = direct_reports'[m]]]
    /\ gen_view' = IF m \in Returned(gen_log)
                    THEN gen_view
                    ELSE [gen_view EXCEPT ![m] = direct_reports'[m]]
    /\ UNCHANGED <<name, top, it, it_log, it_res, gen, gen_log, gen_res, reports0>>

\* ------------------------------------------------------------ the machine
Init ==
    /\ name \in NameMaps
    /\ direct_reports \in Graphs
    /\ top \in Tops
    /\ it = [i \in Iterators |-> EmployeeIterator(top)]
    /\ it_log = [i \in Iterators |-> <<>>]
    /\ it_res = [i \in Iterators |-> "none"]
    /\ gen = employee_generator(top)
    /\ gen_log = <<>>
    /\ gen_res = "none"
    /\ reports0 = direct_reports
    /\ it_view = [i \in Iterators |-> direct_reports]
    /\ gen_view = direct_reports

\* iterator 1 and the generator, advanced in any order
Next ==
    \/ Next_it(1)
    \/ Next_gen

Spec == Init /\ [][Next]_vars

\* the two iterators, advanced in any order
NextTwo == \E i \in Iterators : Next_it(i)

TwoSpec == Init /\ [][NextTwo]_vars

\* iterator 1 alone, called again and again
NextOne == Next_it(1)

OneFairSpec == Init /\ [][NextOne]_vars /\ WF_vars(Next_it(1))

\* iterator 1 and the generator on employees with a name each, while
\* external code appends a report to one of the lists
InitLive ==
    /\ Init
    /\ \A m \in Employee : name[m] = m
    /\ TotalReports(direct_reports) < MaxReports

NextLive ==
    \/ Next_it(1)
    \/ Next_gen
    \/ \E m, r \in Employee : Append_report(m, r)

LiveSpec == InitLive /\ [][NextLive]_vars

\* the caller keeps calling next() on the traversals it advances
Fairness ==
    /\ WF_vars(Next_it(1))
    /\ WF_vars(Next_gen)

\* ---------------------------------------------------- shape of the graph
Reports(m) == {direct_reports[m][k] : k \in DOMAIN direct_reports[m]}

RECURSIVE ReachFrom(_)
ReachFrom(S) ==
    LET T == S \cup UNION {Reports(m) : m \in S}
    IN  IF T = S THEN S ELSE ReachFrom(T)

\* the employees a walk from top can come to
Reachable == ReachFrom({top})

\* a cycle of direct_reports references that a walk from top can come to
Cyclic == \E m \in Reachable : m \in ReachFrom(Reports(m))
Acyclic == ~Cyclic

\* ------------------------------------------------------ reading the logs
IsPrefix(a, b) == Len(a) <= Len(b) /\ SubSeq(b, 1, Len(a)) = a

\* position of the first IterationError in a log, 0 when there is none
FirstError(log) ==
    LET at == {k \in DOMAIN log : log[k].kind = "IterationError"}
    IN  IF at = {} THEN 0 ELSE CHOOSE k \in at : \A j \in at : k <= j

Failed(log) == FirstError(log) # 0

\* the traversal run: the log up to and including its first IterationError
Run(log) == IF Failed(log) THEN SubSeq(log, 1, FirstError(log)) ELSE log

\* the employees a log emitted, in order
Employees(log) ==
    LET em == SelectSeq(log, LAMBDA e : e.kind = "employee")
    IN  [k \in 1..Len(em) |-> em[k].employee]

\* list(EmployeeIterator(top)) has returned or raised
ItDone(i) == it_res[i] = "StopIteration" \/ Failed(it_log[i])
\* list(employee_generator(top)) has returned or raised
GenDone == gen.pc = "closed"

\* ----------------------------------------------------------------- claims
\* C1: on an acyclic graph the employees the iterator returns are, element
\* for element and in number, the employees the generator yields: while the
\* two run one sequence is a prefix of the other, and once both have ended
\* the sequences are equal.
C1_OrderEquivalence ==
    Acyclic =>
        \A i \in Iterators :
            LET a == Employees(Run(it_log[i]))
                b == Employees(gen_log)
            IN  /\ IsPrefix(a, b) \/ IsPrefix(b, a)
                /\ (ItDone(i) /\ GenDone) => a = b

C1_Witness ==
    /\ Acyclic
    /\ ItDone(1) /\ GenDone
    /\ ~Failed(gen_log)
    /\ Len(Employees(gen_log)) = 3
    /\ Employees(it_log[1]) = Employees(gen_log)

\* C2: when a traversal fails, the iterator and the generator have emitted
\* the same employees before the failure, the failure comes from the pop of
\* the same employee after the same number of steps, and it is the same
\* error with the same message.
C2_FailureEquivalence ==
    \A i \in Iterators :
        (ItDone(i) /\ GenDone /\ (Failed(it_log[i]) \/ Failed(gen_log))) =>
            /\ Failed(it_log[i]) /\ Failed(gen_log)
            /\ Run(it_log[i]) = gen_log
            /\ gen_log[Len(gen_log)].msg = CyclicMsg

C2_Witness ==
    /\ Failed(it_log[1]) /\ Failed(gen_log)
    /\ Len(gen_log) = 3
    /\ Run(it_log[1]) = gen_log

\* C3: on an acyclic graph a traversal that has ended has emitted each of
\* the N employees it can reach exactly once and has raised no
\* IterationError.
Complete(log) ==
    /\ ~Failed(log)
    /\ Len(Employees(log)) = Cardinality(Reachable)
    /\ \A m \in Reachable :
           Cardinality({k \in DOMAIN log : log[k] = Emitted(m)}) = 1

DistinctNames == \A m, n \in Reachable : name[m] = name[n] => m = n

C3_Completeness ==
    (Acyclic /\ DistinctNames) =>
        /\ \A i \in Iterators : ItDone(i) => Complete(it_log[i])
        /\ GenDone => Complete(gen_log)

\* C4: on a graph with a cycle that a walk from top can come to, no
\* traversal signals StopIteration before it has raised IterationError, and
\* every traversal that is advanced again and again raises IterationError.
NoSilentEnd ==
    /\ \A i \in Iterators : it_res[i] = "StopIteration" => Failed(it_log[i])
    /\ gen_res = "StopIteration" => Failed(gen_log)

AllFailed ==
    /\ Failed(it_log[1])
    /\ Failed(gen_log)

C4_CycleTermination ==
    /\ [](Cyclic => NoSilentEnd)
    /\ (Cyclic => <>AllFailed)

C4_Witness ==
    /\ Cyclic
    /\ AllFailed
    /\ Len(gen_log) = 4
    /\ top \notin Reports(top)

\* the traversals on the graphs that have a cycle and a name per employee,
\* advanced without end
InitCyclic == Init /\ Cyclic /\ \A m \in Employee : name[m] = m
FairSpec == InitCyclic /\ [][Next]_vars /\ Fairness

\* C5: on a tree the employees come out in the order of the walk that takes
\* an employee and then walks its direct reports from the last to the
\* first; top with the reports [A, B] and no further reports comes out as
\* [top, B, A].
RECURSIVE Walk(_), WalkReports(_, _)
Walk(m) == <<m>> \o WalkReports(direct_reports[m], Len(direct_reports[m]))
WalkReports(r, k) == IF k = 0 THEN <<>> ELSE Walk(r[k]) \o WalkReports(r, k - 1)

\* how many entries of the direct_reports lists of reachable employees are m
References(m) ==
    Cardinality({p \in Reachable \X (1..MaxReports) :
                    p[2] \in DOMAIN direct_reports[p[1]]
                    /\ direct_reports[p[1]][p[2]] = m})

IsTree ==
    /\ Acyclic
    /\ DistinctNames
    /\ \A m \in Reachable : References(m) = (IF m = top THEN 0 ELSE 1)

InWalkOrder(log, done) ==
    /\ IsPrefix(Employees(log), Walk(top))
    /\ done => Employees(log) = Walk(top)

ErrorIsLast(log) == Failed(log) => FirstError(log) = Len(log)

C6_ErrorTerminal ==
    /\ \A i \in Iterators : ErrorIsLast(it_log[i])
    /\ ErrorIsLast(gen_log)

\* C7: when top is one of its own direct reports, a traversal from top
\* emits top first and never a second time, does not end without an
\* IterationError, and raises it no later than at the second pop of top:
\* at that pop exactly when top is the only report of top.
SelfLoop == top \in Reports(top)

\* the positions of a log at which m was popped
Pops(log, m) == {k \in DOMAIN log : log[k].employee = m}

SelfLoopDetected(log) ==
    /\ log # <<>> => log[1] = Emitted(top)
    /\ Cardinality({k \in DOMAIN log : log[k] = Emitted(top)}) <= 1
    /\ LET run == Run(log)
       IN  /\ Cardinality(Pops(run, top)) <= 2
           /\ Cardinality(Pops(run, top)) = 2 => run[Len(run)] = Raised(top)
    /\ direct_reports[top] = <<top>> =>
           IsPrefix(log, <<Emitted(top), Raised(top)>>)

C7_SelfLoop ==
    SelfLoop =>
        /\ NoSilentEnd
        /\ \A i \in Iterators : SelfLoopDetected(it_log[i])
        /\ SelfLoopDetected(gen_log)

C7_Witness ==
    /\ direct_reports[top] = <<top>>
    /\ it_log[1] = <<Emitted(top), Raised(top)>>
    /\ gen_log = <<Emitted(top), Raised(top)>>

\* C7 as stated: the IterationError of a traversal from a top that is one
\* of its own direct reports is raised by the second pop of top.
FailsAtTop(log) == Failed(log) => log[FirstError(log)] = Raised(top)

C7_FailsAtSecondPopOfTop ==
    SelfLoop =>
        /\ \A i \in Iterators : FailsAtTop(it_log[i])
        /\ FailsAtTop(gen_log)

\* C8: when the only report of top is c and the only report of c is top, a
\* traversal emits top, then c, and raises IterationError at the step that
\* pops top again: the log is [top, c, IterationError on top], so that at
\* the failure top and c have each been emitted once.
BackToTop(c) ==
    /\ c # top
    /\ name[c] # name[top]
    /\ direct_reports[top] = <<c>>
    /\ direct_reports[c] = <<top>>

IndirectCycleLog(c) == <<Emitted(top), Emitted(c), Raised(top)>>

C8_IndirectCycle ==
    \A c \in Employee :
        BackToTop(c) =>
            /\ NoSilentEnd
            /\ \A i \in Iterators :
                  /\ IsPrefix(it_log[i], IndirectCycleLog(c))
                  /\ ItDone(i) => it_log[i] = IndirectCycleLog(c)
            /\ IsPrefix(gen_log, IndirectCycleLog(c))
            /\ GenDone => gen_log = IndirectCycleLog(c)

C8_Witness ==
    \E c \in Employee :
        /\ BackToTop(c)
        /\ it_log[1] = IndirectCycleLog(c)
        /\ gen_log = IndirectCycleLog(c)

\* C9: each of the two iterators, however their calls interleave, produces
\* what one iterator advanced alone produces, and a call on one leaves the
\* employees_to_visit and employees_visited of the other as they were.
RECURSIVE Alone(_, _)
Alone(self, log) ==
    LET r == it_next(self)
    IN  IF r.res = "StopIteration" THEN log ELSE Alone(r.self, Log(log, r))

AloneLog == Alone(EmployeeIterator(top), <<>>)

SameAsAlone ==
    \A i \in Iterators :
        /\ IsPrefix(it_log[i], AloneLog)
        /\ it_res[i] = "StopIteration" => it_log[i] = AloneLog

NoCrossTalk ==
    \A i, j \in Iterators : (i # j /\ Next_it(i)) => it'[j] = it[j]

C9_Independence == []SameAsAlone /\ [][NoCrossTalk]_vars

C9_Witness ==
    /\ Len(AloneLog) >= 3
    /\ it_log[1] = AloneLog /\ it_res[1] = "StopIteration"
    /\ Len(it_log[2]) = 1 /\ it[2] # it[1]

\* C10: on a top with no direct reports the first call returns top and the
\* second call signals StopIteration, for the iterator and the generator.
NoReports == direct_reports[top] = <<>>

SingleIt(i) ==
    Next_it(i) =>
        IF it_res[i] = "none"
        THEN it_res'[i] = "employee" /\ it_log'[i] = <<Emitted(top)>>
        ELSE it_res'[i] = "StopIteration" /\ it_log'[i] = <<Emitted(top)>>

SingleGen ==
    Next_gen =>
        IF gen_res = "none"
        THEN gen_res' = "employee" /\ gen_log' = <<Emitted(top)>>
        ELSE gen_res' = "StopIteration" /\ gen_log' = <<Emitted(top)>>

C10_SingleEmployee ==
    [][NoReports => (SingleGen /\ \A i \in Iterators : SingleIt(i))]_vars

C10_Witness ==
    /\ NoReports
    /\ it_res[1] = "StopIteration" /\ it_log[1] = <<Emitted(top)>>
    /\ gen_res = "StopIteration" /\ gen_log = <<Emitted(top)>>

\* C11: in a graph without a cycle and without a shared report, in which
\* two employees a and b carry the same name, a traversal does not end
\* without an IterationError; the error is raised by the pop of the one of
\* the two that is popped second, after the other was emitted, and that one
\* is never emitted.
TreeShape ==
    /\ Acyclic
    /\ \A m \in Reachable : References(m) = (IF m = top THEN 0 ELSE 1)

Collide(a, b) ==
    /\ a # b
    /\ name[a] = name[b]
    /\ a \in Reachable /\ b \in Reachable

CollisionIsError(log, a, b) ==
    Failed(log) =>
        LET k == FirstError(log)
            e == log[k].employee
        IN  /\ e \in {a, b}
            /\ \E j \in 1..(k - 1) : \E o \in {a, b} \ {e} : log[j] = Emitted(o)
            /\ \A j \in DOMAIN log : log[j] # Emitted(e)

C11_CollisionIsCycle ==
    \A a, b \in Employee :
        (Collide(a, b) /\ TreeShape) =>
            /\ NoSilentEnd
            /\ \A i \in Iterators : CollisionIsError(it_log[i], a, b)
            /\ CollisionIsError(gen_log, a, b)

\* the two namesakes are the two reports of top
C11_Witness ==
    /\ TreeShape
    /\ direct_reports[top] = <<2, 3>> /\ name[3] = name[2]
    /\ direct_reports[2] = <<>> /\ direct_reports[3] = <<>>
    /\ it_log[1] = <<Emitted(1), Emitted(3), Raised(2)>>
    /\ gen_log = <<Emitted(1), Emitted(3), Raised(2)>>

\* C12: the check is made when an employee is popped, not when it is
\* pushed: a call that pops an employee whose name is not in the visited
\* set returns it, also when one of its reports carries a visited name or is
\* already waiting on the stack, and a call raises IterationError exactly
\* when the employee it pops carries a visited name.
Range(seq) == {seq[k] : k \in DOMAIN seq}

PopTimeCheck(to_visit, visited, res, log, log2) ==
    to_visit # <<>> =>
        LET e == to_visit[Len(to_visit)]
        IN  /\ name[e] \notin visited =>
                  res = "employee" /\ log2 = Append(log, Emitted(e))
            /\ name[e] \in visited <=> res = "IterationError"
            /\ name[e] \in visited => log2 = Append(log, Raised(e))

C12_Step ==
    /\ \A i \in Iterators :
          Next_it(i) =>
              PopTimeCheck(it[i].employees_to_visit, it[i].employees_visited,
                           it_res'[i], it_log[i], it_log'[i])
    /\ (Next_gen /\ gen.pc # "closed") =>
          PopTimeCheck(gen_enter(gen, top).to_visit, gen_enter(gen, top).visited,
                       gen_res', gen_log, gen_log')

C12_DetectAtPop == [][C12_Step]_vars

\* the latest call pushed an employee with a visited name, and one that was
\* already waiting, and returned
PushedSeen(to_visit, visited) ==
    /\ \E k \in DOMAIN to_visit : name[to_visit[k]] \in visited
    /\ \E j, k \in DOMAIN to_visit : j # k /\ to_visit[j] = to_visit[k]

C12_Witness ==
    /\ it_res[1] = "employee"
    /\ PushedSeen(it[1].employees_to_visit, it[1].employees_visited)
    /\ gen_res = "employee"
    /\ PushedSeen(gen.to_visit, gen.visited)

\* C15: in every state of an iterator, also after an IterationError, its
\* employees_visited is the set of the names of the employees it has
\* returned so far, and these employees carry pairwise distinct names.
VisitedIsEmitted(i) ==
    LET em == Employees(it_log[i])
    IN  /\ it[i].employees_visited = {name[em[k]] : k \in DOMAIN em}
        /\ \A j, k \in DOMAIN em : name[em[j]] = name[em[k]] => j = k

C15_VisitedInvariant == \A i \in Iterators : VisitedIsEmitted(i)

\* an employee was returned after the first IterationError
C15_Witness ==
    /\ Failed(it_log[1])
    /\ FirstError(it_log[1]) < Len(it_log[1])
    /\ it_log[1][Len(it_log[1])].kind = "employee"
    /\ Cardinality(it[1].employees_visited) = 2

\* C17: a call on an iterator whose employees_to_visit is empty signals
\* StopIteration and leaves employees_to_visit and employees_visited as
\* they are, and an iterator that has signalled StopIteration has an empty
\* employees_to_visit: once signalled, StopIteration is signalled by every
\* later call.
StopKeepsState ==
    \A i \in Iterators :
        (Next_it(i) /\ it[i].employees_to_visit = <<>>) =>
            /\ it_res'[i] = "StopIteration"
            /\ it'[i] = it[i]
            /\ it_log'[i] = it_log[i]

StopMeansEmpty ==
    \A i \in Iterators :
        it_res[i] = "StopIteration" => it[i].employees_to_visit = <<>>

C17_StopIsSticky == []StopMeansEmpty /\ [][StopKeepsState]_vars

C17_Witness ==
    /\ it_res[1] = "StopIteration"
    /\ it[1].employees_to_visit = <<>>
    /\ Cardinality(it[1].employees_visited) = 3

\* C18: a call on an iterator that raises IterationError leaves
\* employees_visited as it is and pushes nothing, and it has removed the
\* popped employee: employees_to_visit is the list before the call without
\* its last element.
FailingCall(i) ==
    (Next_it(i) /\ it_log'[i] # it_log[i] /\ it_res'[i] = "IterationError") =>
        LET before == it[i].employees_to_visit
        IN  /\ it'[i].employees_visited = it[i].employees_visited
            /\ it'[i].employees_to_visit = SubSeq(before, 1, Len(before) - 1)
            /\ Len(it'[i].employees_to_visit) = Len(before) - 1

C18_FailingAdvance == [][\A i \in Iterators : FailingCall(i)]_vars

\* the popped employee had reports that a push would have added
C18_Witness ==
    /\ it_res[1] = "IterationError"
    /\ LET log == it_log[1]
       IN  direct_reports[log[Len(log)].employee] # <<>>
    /\ it[1].employees_to_visit # <<>>

\* C16: an iterator that is called again and again, also after it has
\* raised IterationError, comes to an empty employees_to_visit and signals
\* StopIteration, and it never returns more employees than there are names
\* on the employees a walk from top can come to.
NamesInReach == {name[m] : m \in Reachable}

EmitsBounded == Len(Employees(it_log[1])) <= Cardinality(NamesInReach)

Exhausted ==
    /\ it[1].employees_to_visit = <<>>
    /\ it_res[1] = "StopIteration"

C16_Exhaustion == []EmitsBounded /\ <>Exhausted

\* exhausted after an IterationError and a further employee
C16_Witness ==
    /\ Exhausted
    /\ Failed(it_log[1])
    /\ FirstError(it_log[1]) < Len(it_log[1])
    /\ Len(Employees(it_log[1])) = Cardinality(NamesInReach)

\* C13: no call of next(), on an iterator or on the generator, whether it
\* returns an employee, signals StopIteration or raises IterationError,
\* changes the name or the direct_reports of any employee.
AnyCall == Next_gen \/ \E i \in Iterators : Next_it(i)

C13_ReadOnly ==
    [][AnyCall => (direct_reports' = direct_reports /\ name' = name)]_vars

\* calls have returned employees, raised IterationError and signalled
\* StopIteration
C13_Witness ==
    /\ Failed(it_log[1]) /\ it_res[1] = "StopIteration"
    /\ Failed(gen_log) /\ gen_res = "StopIteration"
    /\ Len(Employees(gen_log)) >= 2
    /\ direct_reports = reports0

\* C14: the reports of an employee are read when the employee is popped:
\* a traversal produces what a walk produces on the lists that hold, for
\* an employee it had not yet returned when external code changed its list,
\* the changed list, and for an employee it had already returned, the list
\* as it was.
RECURSIVE WalkOn(_, _, _)
WalkOn(reports, to_visit, visited) ==
    IF to_visit = <<>>
    THEN <<>>
    ELSE LET e == to_visit[Len(to_visit)]
             rest == SubSeq(to_visit, 1, Len(to_visit) - 1)
         IN  IF name[e] \in visited
             THEN <<Raised(e)>> \o WalkOn(reports, rest, visited)
             ELSE <<Emitted(e)>> \o
                  WalkOn(reports, rest \o reports[e], visited \cup {name[e]})

C14_ReadLive ==
    /\ \A i \in Iterators :
          LET w == WalkOn(it_view[i], <<top>>, {})
          IN  /\ IsPrefix(it_log[i], w)
              /\ it_res[i] = "StopIteration" => it_log[i] = w
    /\ LET w == Run(WalkOn(gen_view, <<top>>, {}))
       IN  /\ IsPrefix(gen_log, w)
           /\ GenDone => gen_log = w

\* a list was changed after the iterator had returned its employee and
\* before the generator returned it: the generator pushed the new report,
\* the iterator did not
C14_Witness ==
    /\ it_view[1] = reports0
    /\ gen_view = direct_reports
    /\ direct_reports # reports0
    /\ it_res[1] = "StopIteration" /\ GenDone
    /\ Len(gen_log) > Len(it_log[1])

====
